---- MODULE Spec2Model ----
(***************************************************************************)
(* Malaysian mortgage calculator: the financial calculation engine.        *)
(*                                                                         *)
(* Numbers.  The engine computes in IEEE doubles.  Here every number is a  *)
(* decimal fixed-point integer:                                            *)
(*   money            in mills   (1/1000 ringgit, one tenth of a sen)      *)
(*   unrounded annuity payment in micro-ringgit (1/1000000 ringgit)        *)
(*   annual rates     in basis points (4.10 % is 410)                      *)
(*   Math.pow results in units of 1/PowScale                               *)
(*   base amounts of the levy functions in whole ringgit                   *)
(* Products and quotients are taken exactly and rounded to the nearest     *)
(* unit.  roundToTwoDecimals is Math.round(num * 100) / 100: half-sen ties *)
(* go towards +infinity, except that the double nearest to num * 100 may   *)
(* lie just below the tie; that representation error is the argument       *)
(* `below` of roundToTwoDecimals.                                          *)
(*                                                                         *)
(* State.  A call of an engine function is pc, fn, args and result, with   *)
(* the locals of the two loops.  legalAdditionalFees is the one object of  *)
(* data.js that a result refers to; loanType, currentResults and           *)
(* amortizationData are the fields of state in app.js.                     *)
(***************************************************************************)
EXTENDS Integers, Sequences, FiniteSets, TLC

VARIABLES pc, fn, args, result,
          original, balance, month, totalInterestPaid, totalPaid,
          scheduleMonthlyPayment, schedule, cumulativeInterest, cumulativePrincipal,
          legalAdditionalFees, firstReturned,
          loanType, currentResults, amortizationData, toast, downloads, called

\* the locals of generateAmortizationSchedule other than balance and month;
\* scheduleMonthlyPayment is its monthlyPayment
scheduleVars ==
  <<scheduleMonthlyPayment, schedule, cumulativeInterest, cumulativePrincipal>>

\* the object LEGAL_FEES.additionalFees as it is in memory, and the values
\* that the first call of calculateLegalFees returned
heapVars == <<legalAdditionalFees, firstReturned>>

\* the fields of state in app.js that the calculator tab uses, the last error
\* shown, the files downloaded, and the engine functions that the last
\* handler called
appVars == <<loanType, currentResults, amortizationData, toast, downloads, called>>

outerVars == <<heapVars, appVars>>

vars == <<pc, fn, args, result, original, balance, month, totalInterestPaid, totalPaid,
          scheduleVars, outerVars>>

loopVars == <<original, balance, month, totalInterestPaid, totalPaid, scheduleVars,
              outerVars>>

-----------------------------------------------------------------------------
(* Units *)

Hundred == 100

MonthsPerYear == 12

Mill == 10 * Hundred

Micro == Mill * Mill

PowScale == Hundred * Micro

\* annualRate / 100 / 12 with annualRate in basis points
RateDen == Hundred * Hundred * MonthsPerYear

\* the value that stands for a not yet computed / absent number
None == "none"

\* null
Null == [type |-> "null"]

\* no call has returned yet
NothingReturned == [taken |-> FALSE, args |-> None, values |-> None]

-----------------------------------------------------------------------------
(* Arithmetic on non-negative integers that never leaves 31 bits *)

Min(a, b) == IF a <= b THEN a ELSE b

Max(a, b) == IF a >= b THEN a ELSE b

\* the largest integer TLC computes with, 2^31 - 1
MaxInt == 2147 * Micro + 483647

\* the power of two, smaller than b, a multiplier b > 2 is split at
SplitAt(b) ==
  IF b > 65536 THEN 65536 ELSE IF b > 256 THEN 256 ELSE IF b > 16 THEN 16
  ELSE IF b > 4 THEN 4 ELSE 2

\* <<q, r>> with a * b = q * c + r and 0 <= r < c, for a, b >= 0 and
\* 0 < c < 2^30, without forming a product that leaves 31 bits
RECURSIVE MulDivQR(_, _, _)
MulDivQR(a, b, c) ==
  IF a = 0 \/ b = 0 THEN <<0, 0>>
  ELSE IF a >= c
  THEN LET h == MulDivQR(a % c, b, c) IN <<(a \div c) * b + h[1], h[2]>>
  ELSE IF b <= MaxInt \div a
  THEN <<(a * b) \div c, (a * b) % c>>
  ELSE LET L  == SplitAt(b)
           h1 == MulDivQR(a, b \div L, c)
           h2 == MulDivQR(h1[2], L, c)
           h3 == MulDivQR(a, b % L, c)
           rr == h2[2] + h3[2]
       IN  <<h1[1] * L + h2[1] + h3[1] + (rr \div c), rr % c>>

\* a * b / c rounded to the nearest integer
MulDivRound(a, b, c) ==
  LET qr == MulDivQR(a, b, c)
  IN  IF 2 * qr[2] >= c THEN qr[1] + 1 ELSE qr[1]

\* a / c rounded to the nearest integer, halves up, for any sign of a
DivRound(a, c) == (a + c \div 2) \div c

\* Math.ceil taken as Math.floor
CeilAsFloor(a, b) == a \div b

\* Math.ceil(a / b) for a >= 0, b > 0
Ceil(a, b) == (a + b - 1) \div b

-----------------------------------------------------------------------------
(* Configuration: the tables of data.js.  Base amounts are in whole        *)
(* ringgit; see the section on levies for the units of the rates.          *)

\* Infinity, the largest number
Infinity == MaxInt

STAMP_DUTY_MOT ==
  [standard |->
     << [min |-> 0,       max |-> 100000,   rate |-> 1],
        [min |-> 100000,  max |-> 500000,   rate |-> 2],
        [min |-> 500000,  max |-> 1000000,  rate |-> 3],
        [min |-> 1000000, max |-> Infinity, rate |-> 4] >>,
   firstTimeBuyerExemption |-> [maxPrice |-> 500000, exemptionRate |-> 100],
   hocExemption |-> [minPrice |-> 300000, maxPrice |-> 2500000, exemptionRate |-> 75]]

LEGAL_FEES ==
  [scale |->
     << [min |-> 0,       max |-> 500000,   rate |-> 10],
        [min |-> 500000,  max |-> 1000000,  rate |-> 8],
        [min |-> 1000000, max |-> 3000000,  rate |-> 7],
        [min |-> 3000000, max |-> 5000000,  rate |-> 6],
        [min |-> 5000000, max |-> 7500000,  rate |-> 5],
        [min |-> 7500000, max |-> Infinity, rate |-> 5] >>,
   additionalFees |->
     [disbursement |-> 1500, searchFees |-> 300, registrationFees |-> 200,
      stampingFees |-> 100]]

\* STAMP_DUTY_LOAN; the rate is per mille, so that the duty on a loan of
\* whole ringgit is in mills
STAMP_DUTY_LOAN ==
  [rate |-> 5, maxExemption |-> 500000, firstTimeBuyerMaxPrice |-> 500000]

-----------------------------------------------------------------------------
(* Utility functions *)

\* Math.round(num * 100) / 100 of a number held in units of 1/unit; the
\* result is in mills
roundToTwoDecimals(num, unit, below) ==
  LET sub == unit \div Hundred
      q   == num \div sub
      r   == num % sub
      up  == 2 * r > sub \/ (2 * r = sub /\ ~below)
  IN  (IF up THEN q + 1 ELSE q) * (Mill \div Hundred)

\* roundToTwoDecimals of a number in mills whose decimal value is not
\* subject to representation error
Round2(num) == roundToTwoDecimals(num, Mill, FALSE)

-----------------------------------------------------------------------------
(* Annuity engine *)

\* Math.pow and its operands carry sixteen decimals, as a pair <<hi, lo>>
\* that stands for (hi + lo / PowScale) / PowScale with 0 <= lo < PowScale

\* the product of two such pairs
PowMul(x, y) ==
  LET t1 == MulDivQR(x[1], y[1], PowScale)
      t2 == MulDivQR(x[1], y[2], PowScale)
      t3 == MulDivQR(x[2], y[1], PowScale)
      lo == t1[2] + (t2[1] % PowScale) + (t3[1] % PowScale)
  IN  <<t1[1] + (t2[1] \div PowScale) + (t3[1] \div PowScale) + (lo \div PowScale),
        lo % PowScale>>

\* Math.pow(base, exponent), by repeated squaring
RECURSIVE Pow(_, _)
Pow(base, exponent) ==
  IF exponent = 0 THEN <<PowScale, 0>>
  ELSE LET h  == Pow(base, exponent \div 2)
           sq == PowMul(h, h)
       IN  IF sq[1] = 0 THEN sq
           ELSE IF exponent % 2 = 1 THEN PowMul(sq, base) ELSE sq

\* 1 + monthlyRate
OnePlusRate(annualRate) ==
  LET t == MulDivQR(annualRate, PowScale, RateDen)
  IN  <<PowScale + t[1], MulDivQR(t[2], PowScale, RateDen)[1]>>

\* principal * monthlyRate, in micro-ringgit
FirstInterest(principal, annualRate) ==
  MulDivRound(principal, annualRate, RateDen \div Mill)

\* x / (p[1] + p[2] / PowScale) * PowScale: x divided by a sixteen-decimal
\* number, as a division by p[1] corrected to first order for p[2]
DivByPair(x, p) ==
  LET q == MulDivQR(x, PowScale, p[1])
  IN  q[1] + DivRound(q[2] - MulDivRound(q[1], p[2], PowScale), p[1])

\* principal * (monthlyRate * pow) / (pow - 1), the unrounded PMT value in
\* micro-ringgit, taken as x + x / (pow - 1) with x = principal * monthlyRate
PMT(principal, annualRate, totalMonths) ==
  LET pw == Pow(OnePlusRate(annualRate), totalMonths)
      x  == FirstInterest(principal, annualRate)
  IN  x + DivByPair(x, <<pw[1] - PowScale, pw[2]>>)

\* the zero-rate payment rounded to two decimals
ZeroRatePaymentRounded(principal, totalMonths) ==
  Round2(MulDivRound(principal, 1, totalMonths))

\* line 16: monthlyPayment: principal / totalMonths, returned as it is
ZeroRatePayment(principal, totalMonths) == MulDivRound(principal, 1, totalMonths)

calculateMonthlyPayment(principal, annualRate, tenureYears) ==
  LET totalMonths == tenureYears * MonthsPerYear
  IN  IF annualRate = 0
      THEN [monthlyPayment |-> ZeroRatePayment(principal, totalMonths),
            totalPayment   |-> principal,
            totalInterest  |-> 0,
            effectiveRate  |-> 0]
      ELSE LET monthlyPayment == PMT(principal, annualRate, totalMonths)
               totalPayment   == MulDivRound(monthlyPayment, totalMonths, Mill)
               totalInterest  == totalPayment - principal
           IN  [monthlyPayment |-> roundToTwoDecimals(monthlyPayment, Micro, FALSE),
                totalPayment   |-> Round2(totalPayment),
                totalInterest  |-> Round2(totalInterest),
                effectiveRate  |-> Round2(MulDivRound(totalInterest, Hundred * Mill, principal))]

-----------------------------------------------------------------------------
(* Extra-payment simulator: calculateExtraPaymentImpact, one action per     *)
(* iteration of its while loop                                              *)

\* the longest simulation followed; the loop itself has no bound
MaxMonths == 250

\* balance * monthlyRate, in mills
InterestPayment(bal, annualRate) == MulDivRound(bal, annualRate, RateDen)

RegularPrincipal(monthlyPayment, interestPayment) == monthlyPayment - interestPayment

\* a simulator that leaves the extra monthly payment out of the principal paid
TotalPrincipalPaymentNoExtra(regularPrincipal, extraMonthly) == regularPrincipal

TotalPrincipalPayment(regularPrincipal, extraMonthly) == regularPrincipal + extraMonthly

\* a lump sum taken off in its month and in every month after it
LumpSumAppliesFromMonthOn(m, lumpSum, lumpSumMonth) == m >= lumpSumMonth /\ lumpSum > 0

\* the balance and the amount paid after the lump sum of this month, if any
LumpSumApplies(m, lumpSum, lumpSumMonth) == m = lumpSumMonth /\ lumpSum > 0

BalanceAfterLumpSum(bal, lumpSum) == Max(0, bal - lumpSum)

PaidAfterLumpSum(paid, bal, lumpSum) == paid + lumpSum

\* the test that selects the closing payment
IsClosingPayment(bal, totalPrincipalPayment, interestPayment) ==
  bal <= totalPrincipalPayment + interestPayment

\* loans of 120 and 1200 ringgit, and a loan of 3 ringgit at 12 %
SmallLoans ==
  [principal : {120000, 1200000}, annualRate : {0, 400, 1200}, tenureYears : {1, 2, 20}]
  \cup [principal : {3000}, annualRate : {1200}, tenureYears : {1, 2, 20}]

SmallExtras ==
  [extraMonthly : {0, 10, 5000}, lumpSum : {0}, lumpSumMonth : {1}]
  \cup [extraMonthly : {0, 10, 5000}, lumpSum : {50000, 2000000}, lumpSumMonth : {1, 3}]
  \cup [extraMonthly : {0}, lumpSum : {50000}, lumpSumMonth : {300}]

\* concrete scenario: principal 300000, rate 4.0 %, 20 years, with and
\* without 500 extra a month
Scenario3 ==
  [principal |-> 300000 * Mill, annualRate |-> 400, tenureYears |-> 20,
   extraMonthly |-> 500 * Mill, lumpSum |-> 0, lumpSumMonth |-> 1]

ExtraInputs ==
  { [principal |-> l.principal, annualRate |-> l.annualRate, tenureYears |-> l.tenureYears,
     extraMonthly |-> e.extraMonthly, lumpSum |-> e.lumpSum, lumpSumMonth |-> e.lumpSumMonth]
    : l \in SmallLoans, e \in SmallExtras }
  \cup {Scenario3, [Scenario3 EXCEPT !.extraMonthly = 0]}

ExtraResult ==
  LET originalTotalMonths == args.tenureYears * MonthsPerYear
  IN  [original |->
         [monthlyPayment |-> original.monthlyPayment,
          totalMonths    |-> originalTotalMonths,
          totalYears     |-> args.tenureYears,
          totalInterest  |-> original.totalInterest,
          totalPayment   |-> original.totalPayment],
       withExtraPayments |->
         [monthlyPayment |-> original.monthlyPayment + args.extraMonthly,
          totalMonths    |-> month,
          totalYears     |-> Round2(DivRound(month * Mill, MonthsPerYear)),
          totalInterest  |-> Round2(totalInterestPaid),
          totalPayment   |-> Round2(totalPaid)],
       savings |->
         [monthsSaved   |-> originalTotalMonths - month,
          yearsSaved    |-> Round2(DivRound((originalTotalMonths - month) * Mill, MonthsPerYear)),
          interestSaved |-> Round2(original.totalInterest - totalInterestPaid),
          totalSaved    |-> Round2(original.totalPayment - totalPaid)]]

InitIdle ==
  /\ pc = "idle"
  /\ fn = None
  /\ args = None
  /\ result = None
  /\ original = None
  /\ balance = 0
  /\ month = 0
  /\ totalInterestPaid = 0
  /\ totalPaid = 0
  /\ scheduleMonthlyPayment = 0
  /\ schedule = <<>>
  /\ cumulativeInterest = 0
  /\ cumulativePrincipal = 0
  /\ legalAdditionalFees = LEGAL_FEES.additionalFees
  /\ firstReturned = NothingReturned
  /\ loanType = "conventional"
  /\ currentResults = Null
  /\ amortizationData = <<>>
  /\ toast = None
  /\ downloads = 0
  /\ called = <<>>

\* lines 89-97: the call, up to the first test of the loop
ExtraCall ==
  /\ pc = "idle"
  /\ \E a \in ExtraInputs :
       /\ args' = a
       /\ original' = calculateMonthlyPayment(a.principal, a.annualRate, a.tenureYears)
       /\ balance' = a.principal
  /\ fn' = "calculateExtraPaymentImpact"
  /\ month' = 0
  /\ totalInterestPaid' = 0
  /\ totalPaid' = 0
  /\ pc' = "loop"
  /\ UNCHANGED <<result, scheduleVars, outerVars>>

\* lines 99-124: one iteration of while (balance > 0)
ExtraLoop ==
  /\ pc = "loop"
  /\ balance > 0
  /\ month < MaxMonths
  /\ LET m     == month + 1
         lump  == LumpSumApplies(m, args.lumpSum, args.lumpSumMonth)
         bal1  == IF lump THEN BalanceAfterLumpSum(balance, args.lumpSum) ELSE balance
         paid1 == IF lump THEN PaidAfterLumpSum(totalPaid, balance, args.lumpSum) ELSE totalPaid
         interestPayment       == InterestPayment(bal1, args.annualRate)
         regularPrincipal      == RegularPrincipal(original.monthlyPayment, interestPayment)
         totalPrincipalPayment == TotalPrincipalPayment(regularPrincipal, args.extraMonthly)
     IN  /\ month' = m
         /\ IF bal1 <= 0
            THEN /\ balance' = bal1
                 /\ totalPaid' = paid1
                 /\ UNCHANGED totalInterestPaid
            ELSE IF IsClosingPayment(bal1, totalPrincipalPayment, interestPayment)
            THEN /\ totalInterestPaid' = totalInterestPaid + interestPayment
                 /\ totalPaid' = paid1 + bal1 + interestPayment
                 /\ balance' = 0
            ELSE /\ balance' = bal1 - totalPrincipalPayment
                 /\ totalInterestPaid' = totalInterestPaid + interestPayment
                 /\ totalPaid' = paid1 + original.monthlyPayment + args.extraMonthly
  /\ UNCHANGED <<pc, fn, args, result, original, scheduleVars, outerVars>>

\* lines 126-149: the loop has ended, the result is built
ExtraReturn ==
  /\ pc = "loop"
  /\ balance <= 0
  /\ result' = ExtraResult
  /\ pc' = "done"
  /\ UNCHANGED <<fn, args, original, balance, month, totalInterestPaid, totalPaid,
                 scheduleVars, outerVars>>

NextExtra == ExtraCall \/ ExtraLoop \/ ExtraReturn

SpecExtra == InitIdle /\ [][NextExtra]_vars

-----------------------------------------------------------------------------
(* One call of roundToTwoDecimals, on an amount in mills                    *)

\* amounts of a whole number of eighths of a ringgit between -12.50 and
\* 12.50, and every amount of a whole number of mills between -0.13 and 0.13
RoundInputs == {125 * k : k \in -100..100} \cup (-130..130)

\* the ways the double nearest to num * 100 can lie with respect to num * 100:
\* an amount of a whole number of eighths is a double, and its product by 100
\* is exact; the product of any other amount may fall just below
RepresentationErrors(num) == IF num % 125 = 0 THEN {FALSE} ELSE BOOLEAN

\* lines 502-504
RoundCall ==
  /\ pc = "idle"
  /\ \E num \in RoundInputs :
       \E below \in RepresentationErrors(num) :
         /\ args' = [num |-> num]
         /\ result' = roundToTwoDecimals(num, Mill, below)
  /\ fn' = "roundToTwoDecimals"
  /\ pc' = "done"
  /\ UNCHANGED loopVars

NextRound == RoundCall

SpecRound == InitIdle /\ [][NextRound]_vars

-----------------------------------------------------------------------------
(* One call of calculateMonthlyPayment                                      *)

\* loans of 30 to 1200 ringgit; each principal is a whole number of mills a
\* month over 12, 24 and 240 months, so that principal / totalMonths is exact
PaymentInputs ==
  [principal : {30000, 30240, 60240, 99840, 120000, 180000, 300000, 499200, 600000,
                720000, 960000, 1200000},
   annualRate : {0, 400, 1200}, tenureYears : {1, 2, 20}]

\* lines 10-37
PaymentCall ==
  /\ pc = "idle"
  /\ \E a \in PaymentInputs :
       /\ args' = a
       /\ result' = calculateMonthlyPayment(a.principal, a.annualRate, a.tenureYears)
  /\ fn' = "calculateMonthlyPayment"
  /\ pc' = "done"
  /\ UNCHANGED loopVars

NextPayment == PaymentCall

SpecPayment == InitIdle /\ [][NextPayment]_vars

-----------------------------------------------------------------------------
(* Amortization schedule: generateAmortizationSchedule, one action per      *)
(* iteration of its for loop.  Its balance, payments and cumulative sums    *)
(* are in micro-ringgit, the fields of its rows in mills.                   *)

\* a loop that stops one month early
ScheduleContinuesBeforeLast(m, totalMonths) == m < totalMonths

\* line 56: month <= totalMonths
ScheduleContinues(m, totalMonths) == m <= totalMonths

\* line 57: interestPayment = balance * monthlyRate
ScheduleInterest(bal, annualRate) == MulDivRound(bal, annualRate, RateDen)

\* line 59: balance = Math.max(0, balance - principalPayment)
BalanceAfterPayment(bal, principalPayment) == Max(0, bal - principalPayment)

\* roundToTwoDecimals of a number in micro-ringgit
Round2Micro(num) == roundToTwoDecimals(num, Micro, FALSE)

\* lines 64-73: the row pushed for month m
ScheduleRow(m, payment, principalPayment, interestPayment, bal, cumInterest, cumPrincipal) ==
  [month               |-> m,
   year                |-> Ceil(m, MonthsPerYear),
   payment             |-> Round2Micro(payment),
   principal           |-> Round2Micro(principalPayment),
   interest            |-> Round2Micro(interestPayment),
   balance             |-> Round2Micro(bal),
   cumulativeInterest  |-> Round2Micro(cumInterest),
   cumulativePrincipal |-> Round2Micro(cumPrincipal)]

\* loans of 30, 120 and 499.20 ringgit, and a loan of 1.30 ringgit at 12 %
ScheduleInputs ==
  [principal : {30000, 120000, 499200}, annualRate : {0, 400, 1200}, tenureYears : {1, 2, 20}]
  \cup [principal : {1300}, annualRate : {1200}, tenureYears : {1, 2, 20}]

\* lines 46-54: the call, up to the first test of the loop
ScheduleCall ==
  /\ pc = "idle"
  /\ \E a \in ScheduleInputs :
       /\ args' = a
       /\ scheduleMonthlyPayment' =
            calculateMonthlyPayment(a.principal, a.annualRate, a.tenureYears).monthlyPayment
              * Mill
       /\ balance' = a.principal * Mill
  /\ fn' = "generateAmortizationSchedule"
  /\ schedule' = <<>>
  /\ cumulativeInterest' = 0
  /\ cumulativePrincipal' = 0
  /\ month' = 1
  /\ pc' = "schedule"
  /\ UNCHANGED <<result, original, totalInterestPaid, totalPaid, outerVars>>

\* lines 56-74: one iteration of the for loop
ScheduleLoop ==
  /\ pc = "schedule"
  /\ ScheduleContinues(month, args.tenureYears * MonthsPerYear)
  /\ LET interestPayment  == ScheduleInterest(balance, args.annualRate)
         principalPayment == scheduleMonthlyPayment - interestPayment
         bal              == BalanceAfterPayment(balance, principalPayment)
     IN  /\ balance' = bal
         /\ cumulativeInterest' = cumulativeInterest + interestPayment
         /\ cumulativePrincipal' = cumulativePrincipal + principalPayment
         /\ schedule' = Append(schedule,
                               ScheduleRow(month, scheduleMonthlyPayment, principalPayment,
                                           interestPayment, bal,
                                           cumulativeInterest + interestPayment,
                                           cumulativePrincipal + principalPayment))
  /\ month' = month + 1
  /\ UNCHANGED <<pc, fn, args, result, original, totalInterestPaid, totalPaid,
                 scheduleMonthlyPayment, outerVars>>

\* line 76: return schedule
ScheduleReturn ==
  /\ pc = "schedule"
  /\ ~ScheduleContinues(month, args.tenureYears * MonthsPerYear)
  /\ result' = schedule
  /\ pc' = "done"
  /\ UNCHANGED <<fn, args, original, balance, month, totalInterestPaid, totalPaid,
                 scheduleVars, outerVars>>

NextSchedule == ScheduleCall \/ ScheduleLoop \/ ScheduleReturn

SpecSchedule == InitIdle /\ [][NextSchedule]_vars

\* lines 56-74 from month m on, as the rows pushed; the amounts in
\* micro-ringgit as in ScheduleLoop
RECURSIVE ScheduleRows(_, _, _, _, _, _, _)
ScheduleRows(m, totalMonths, payment, annualRate, bal, cumInterest, cumPrincipal) ==
  IF ~ScheduleContinues(m, totalMonths) THEN <<>>
  ELSE LET interestPayment  == ScheduleInterest(bal, annualRate)
           principalPayment == payment - interestPayment
       IN  <<ScheduleRow(m, payment, principalPayment, interestPayment,
                         BalanceAfterPayment(bal, principalPayment),
                         cumInterest + interestPayment, cumPrincipal + principalPayment)>>
           \o ScheduleRows(m + 1, totalMonths, payment, annualRate,
                           BalanceAfterPayment(bal, principalPayment),
                           cumInterest + interestPayment, cumPrincipal + principalPayment)

\* lines 46-77 as one call
generateAmortizationSchedule(principal, annualRate, tenureYears) ==
  ScheduleRows(1, tenureYears * MonthsPerYear,
               calculateMonthlyPayment(principal, annualRate, tenureYears).monthlyPayment
                 * Mill,
               annualRate, principal * Mill, 0, 0)

-----------------------------------------------------------------------------
(* Refinancing comparison: compareRefinancing                               *)

\* a number, and the string 'N/A', as values of one field
Number(n) == [type |-> "number", value |-> n]

NotApplicable == [type |-> "string", value |-> "N/A"]

\* a break-even of 0 months where there is none
BreakEvenMonthsZero(monthlyDifference, closingCosts) ==
  IF monthlyDifference > 0 THEN Ceil(closingCosts, monthlyDifference) ELSE 0

\* the test of worthRefinancing without its break-even part
WorthRefinancingOnSavings(netSavings, breakEvenMonths, newTenureMonths) == netSavings > 0

BreakEvenMonths(monthlyDifference, closingCosts) ==
  IF monthlyDifference > 0 THEN Ceil(closingCosts, monthlyDifference) ELSE Infinity

WorthRefinancing(netSavings, breakEvenMonths, newTenureMonths) ==
  netSavings > 0 /\ breakEvenMonths < newTenureMonths

\* lines 174-207: the comparison of the two payment calculations
RefinancingComparison(currentLoan, newLoan, current, newCalc) ==
  LET monthlyDifference       == current.monthlyPayment - newCalc.monthlyPayment
      totalInterestDifference == current.totalInterest - newCalc.totalInterest
      breakEvenMonths == BreakEvenMonths(monthlyDifference, newLoan.closingCosts)
      netSavings      == totalInterestDifference - newLoan.closingCosts
  IN  [current |->
         [monthlyPayment  |-> current.monthlyPayment,
          totalInterest   |-> current.totalInterest,
          totalPayment    |-> current.totalPayment,
          remainingMonths |-> currentLoan.remainingYears * MonthsPerYear],
       refinanced |->
         [monthlyPayment  |-> newCalc.monthlyPayment,
          totalInterest   |-> newCalc.totalInterest,
          totalPayment    |-> newCalc.totalPayment + newLoan.closingCosts,
          newTenureMonths |-> newLoan.tenureYears * MonthsPerYear,
          closingCosts    |-> newLoan.closingCosts],
       comparison |->
         [monthlyDifference  |-> Round2(monthlyDifference),
          totalInterestSaved |-> Round2(totalInterestDifference),
          breakEvenMonths    |-> IF breakEvenMonths = Infinity THEN NotApplicable
                                 ELSE Number(breakEvenMonths),
          breakEvenYears     |-> IF breakEvenMonths = Infinity THEN NotApplicable
                                 ELSE Number(Round2(DivRound(breakEvenMonths * Mill, MonthsPerYear))),
          netSavings         |-> Round2(netSavings),
          worthRefinancing   |-> WorthRefinancing(netSavings, breakEvenMonths,
                                                  newLoan.tenureYears * MonthsPerYear)]]

\* lines 158-172: the two payment calculations, then the comparison
compareRefinancing(currentLoan, newLoan) ==
  RefinancingComparison(currentLoan, newLoan,
    calculateMonthlyPayment(currentLoan.balance, currentLoan.rate, currentLoan.remainingYears),
    calculateMonthlyPayment(currentLoan.balance, newLoan.rate, newLoan.tenureYears))

\* balances of 120 and 1200 ringgit; closing costs from 0 to 1000 ringgit
CurrentLoans ==
  [balance : {120000, 1200000}, rate : {0, 400, 1200}, remainingYears : {1, 2, 20}]

NewLoans ==
  [rate : {0, 400, 1200}, tenureYears : {1, 10, 20},
   closingCosts : {0, 1000, 50000, 100000, 1000000}]

\* lines 158-208
RefiCall ==
  /\ pc = "idle"
  /\ \E c \in CurrentLoans, n \in NewLoans :
       /\ args' = [currentLoan |-> c, newLoan |-> n]
       /\ result' = compareRefinancing(c, n)
  /\ fn' = "compareRefinancing"
  /\ pc' = "done"
  /\ UNCHANGED loopVars

NextRefi == RefiCall

SpecRefi == InitIdle /\ [][NextRefi]_vars

-----------------------------------------------------------------------------
(* Affordability: calculateAffordability                                    *)

\* NaN, the value of 0 / 0, as the value of a field that otherwise holds
\* Number(n)
NaN == [type |-> "NaN", value |-> 0]

\* roundToTwoDecimals of a number or of NaN: Math.round(NaN) is NaN
RoundNumber(x, unit) ==
  IF x.type = "NaN" THEN NaN
  ELSE Number(roundToTwoDecimals(x.value, unit, FALSE))

\* dsrLimit is in percent (0.60 is 60); monthlyIncome * dsrLimit is then in
\* units of 1/100000 ringgit
DsrUnit == Hundred * Mill

\* the early return taken only below zero
NothingAvailableStrict(availableForMortgage) == availableForMortgage < 0

\* the test of the early return
NothingAvailable(availableForMortgage) == availableForMortgage <= 0

\* availableForMortgage * (pow - 1) / (monthlyRate * pow), in mills, taken as
\* y - y / pow with y = availableForMortgage / monthlyRate
MaxLoan(availableForMortgage, annualRate, totalMonths) ==
  IF annualRate = 0 THEN NaN
  ELSE LET pw == Pow(OnePlusRate(annualRate), totalMonths)
           y  == MulDivRound(availableForMortgage, RateDen, annualRate * Hundred)
       IN  Number(y - DivByPair(y, pw))

calculateAffordability(monthlyIncome, existingCommitments, dsrLimit, annualRate, tenureYears, below) ==
  LET maxTotalDebt         == monthlyIncome * dsrLimit
      availableForMortgage == maxTotalDebt - existingCommitments * Hundred
      currentDSR == MulDivRound(existingCommitments, Hundred * Hundred, monthlyIncome)
                      * (Mill \div Hundred)
  IN  IF NothingAvailable(availableForMortgage)
      THEN [canAfford         |-> FALSE,
            maxLoanAmount     |-> Number(0),
            maxMonthlyPayment |-> 0,
            currentDSR        |-> currentDSR,
            message           |-> "Existing commitments exceed DSR limit"]
      ELSE LET maxLoan == MaxLoan(availableForMortgage, annualRate,
                                  tenureYears * MonthsPerYear)
               \* maxLoan / 0.9; NaN / 0.9 is NaN
               price   == IF maxLoan.type = "NaN" THEN NaN
                          ELSE Number(MulDivRound(maxLoan.value, 10, 9))
           IN  [canAfford         |-> TRUE,
                maxLoanAmount     |-> RoundNumber(maxLoan, Mill),
                maxMonthlyPayment |-> roundToTwoDecimals(availableForMortgage, DsrUnit, below),
                currentDSR        |-> currentDSR,
                maxDSR            |-> dsrLimit * Mill,
                availableDSR      |-> MulDivRound(availableForMortgage, Hundred, monthlyIncome)
                                        * (Mill \div Hundred),
                estimatedPropertyPrice |-> RoundNumber(price, Mill),
                breakdown |->
                  [grossIncome          |-> monthlyIncome,
                   maxTotalDebt         |-> roundToTwoDecimals(maxTotalDebt, DsrUnit, below),
                   existingCommitments  |-> existingCommitments,
                   availableForMortgage |->
                     roundToTwoDecimals(availableForMortgage, DsrUnit, below)]]

\* incomes from 100.05 to 8000 ringgit a month, limits of 60 % and 70 %
AffordInputs ==
  [monthlyIncome : {100050, 100990, 3000000, 8000000},
   existingCommitments : {0, 60590, 1800000, 2100000, 3000000, 4800000, 6000000},
   dsrLimit : {60, 70},
   annualRate : {0, 400, 1000},
   tenureYears : {1, 20}]

\* lines 219-257
AffordCall ==
  /\ pc = "idle"
  /\ \E a \in AffordInputs, below \in BOOLEAN :
       /\ args' = a
       /\ result' = calculateAffordability(a.monthlyIncome, a.existingCommitments,
                                           a.dsrLimit, a.annualRate, a.tenureYears, below)
  /\ fn' = "calculateAffordability"
  /\ pc' = "done"
  /\ UNCHANGED loopVars

NextAfford == AffordCall

SpecAfford == InitIdle /\ [][NextAfford]_vars

-----------------------------------------------------------------------------
(* Levies: calculateStampDutyMOT and calculateLegalFees.  Base amounts are  *)
(* in whole ringgit.  The rates of STAMP_DUTY_MOT are in percent, so that   *)
(* its duties are in sen; the rates of LEGAL_FEES are per mille, so that    *)
(* its fees are in mills.  Exemption rates are in percent.  Results are in  *)
(* mills, taxable amounts in whole ringgit.                                 *)

\* the width of a tier taken as its upper limit
TierRangeAsMax(tier) == tier.max

\* tierMax - tierMin
TierRange(tier) == IF tier.max = Infinity THEN Infinity ELSE tier.max - tier.min

\* the loop of calculateStampDutyMOT from tier i on: <<stampDuty, breakdown>>,
\* the duty in sen; below[i] is the tie of the rounding of tier i
RECURSIVE StampDutyTiers(_, _, _)
StampDutyTiers(i, remainingValue, below) ==
  IF i > Len(STAMP_DUTY_MOT.standard) \/ remainingValue <= 0 THEN <<0, <<>>>>
  ELSE LET tier          == STAMP_DUTY_MOT.standard[i]
           taxableAmount == Min(remainingValue, TierRange(tier))
           tierDuty      == taxableAmount * tier.rate
           rest          == StampDutyTiers(i + 1, remainingValue - taxableAmount, below)
       IN  <<tierDuty + rest[1],
             << [range         |-> <<tier.min, tier.max>>,
                 rate          |-> tier.rate,
                 taxableAmount |-> taxableAmount,
                 duty          |-> roundToTwoDecimals(tierDuty, Hundred, below[i])] >>
             \o rest[2]>>

\* the campaign exemption tested before the first-time-buyer exemption
MOTExemptionCampaignFirst(stampDuty, firstTime, hoc) ==
  IF hoc
  THEN stampDuty * STAMP_DUTY_MOT.hocExemption.exemptionRate
  ELSE IF firstTime
  THEN stampDuty * STAMP_DUTY_MOT.firstTimeBuyerExemption.exemptionRate
  ELSE 0

\* lines 296-307: if (first-time buyer ...) ... else if (HOC ...) ...; the
\* unrounded exemption, stampDuty * exemptionRate
MOTExemption(stampDuty, firstTime, hoc) ==
  IF firstTime
  THEN stampDuty * STAMP_DUTY_MOT.firstTimeBuyerExemption.exemptionRate
  ELSE IF hoc
  THEN stampDuty * STAMP_DUTY_MOT.hocExemption.exemptionRate
  ELSE 0

\* below: the ties of the roundings, [tier, gross, exemption, net]
calculateStampDutyMOT(propertyPrice, isFirstTimeBuyer, applyHOC, below) ==
  LET walk      == StampDutyTiers(1, propertyPrice, below.tier)
      stampDuty == walk[1]
      firstTime == /\ isFirstTimeBuyer
                   /\ propertyPrice <= STAMP_DUTY_MOT.firstTimeBuyerExemption.maxPrice
      hoc       == /\ applyHOC
                   /\ propertyPrice >= STAMP_DUTY_MOT.hocExemption.minPrice
                   /\ propertyPrice <= STAMP_DUTY_MOT.hocExemption.maxPrice
      \* stampDuty * exemptionRate, in hundredths of a sen
      exemption == MOTExemption(stampDuty, firstTime, hoc)
  IN  [grossStampDuty |-> roundToTwoDecimals(stampDuty, Hundred, below.gross),
       exemption      |-> roundToTwoDecimals(exemption, Hundred * Hundred, below.exemption),
       exemptionNote  |-> IF firstTime
                          THEN "First-time buyer exemption (100% for property <= RM500,000)"
                          ELSE IF hoc THEN "Home Ownership Campaign exemption (75%)"
                          ELSE "",
       netStampDuty   |-> roundToTwoDecimals(stampDuty * Hundred - exemption,
                                             Hundred * Hundred, below.net),
       breakdown      |-> walk[2]]

\* the loop of calculateLegalFees from tier i on: <<fees, breakdown>>, the
\* fees in mills
RECURSIVE LegalFeeTiers(_, _, _)
LegalFeeTiers(i, remainingValue, below) ==
  IF i > Len(LEGAL_FEES.scale) \/ remainingValue <= 0 THEN <<0, <<>>>>
  ELSE LET tier          == LEGAL_FEES.scale[i]
           feeableAmount == Min(remainingValue, TierRange(tier))
           tierFee       == feeableAmount * tier.rate
           rest          == LegalFeeTiers(i + 1, remainingValue - feeableAmount, below)
       IN  <<tierFee + rest[1],
             << [range  |-> <<tier.min, tier.max>>,
                 rate   |-> tier.rate,
                 amount |-> feeableAmount,
                 fee    |-> roundToTwoDecimals(tierFee, Mill, below[i])] >>
             \o rest[2]>>

\* line 382, additionalFees: LEGAL_FEES.additionalFees: the object itself,
\* not a copy of it
AdditionalFeesRef == [ref |-> "LEGAL_FEES.additionalFees"]

\* line 378: Object.values(LEGAL_FEES.additionalFees).reduce((a, b) => a + b, 0)
SumOfValues(object) ==
  object.disbursement + object.searchFees + object.registrationFees + object.stampingFees

\* below: the ties of the roundings, [tier, gross, net]; the additional fees
\* are read from the object as it is in memory at the call
calculateLegalFees(amount, below) ==
  LET walk == LegalFeeTiers(1, amount, below.tier)
      fees == walk[1]
      additionalFees == SumOfValues(legalAdditionalFees) * Mill
  IN  [baseFees            |-> roundToTwoDecimals(fees, Mill, below.gross),
       additionalFees      |-> AdditionalFeesRef,
       totalAdditionalFees |-> additionalFees,
       totalFees           |-> roundToTwoDecimals(fees + additionalFees, Mill, below.net),
       breakdown           |-> walk[2]]

\* an argument left out of a call
Undefined == [type |-> "undefined", value |-> 0]

\* line 325, propertyPrice = 0: a parameter takes its default when the
\* argument is left out
DefaultParameter(arg, default) == IF arg = Undefined THEN default ELSE arg.value

\* line 331: if (isFirstTimeBuyer && propertyPrice <= firstTimeBuyerMaxPrice)
LoanExemptionApplies(isFirstTimeBuyer, propertyPrice) ==
  isFirstTimeBuyer /\ propertyPrice <= STAMP_DUTY_LOAN.firstTimeBuyerMaxPrice

\* lines 325-344; below: the ties of the roundings, [gross, exemption, net].
\* The same number rounds the same way: the exemption on the whole loan is
\* the number grossStampDuty, and grossStampDuty - 0 is grossStampDuty
calculateStampDutyLoan(loanAmount, isFirstTimeBuyer, propertyPrice, below) ==
  LET grossStampDuty   == loanAmount * STAMP_DUTY_LOAN.rate
      applies          == LoanExemptionApplies(isFirstTimeBuyer, propertyPrice)
      exemptableAmount == Min(loanAmount, STAMP_DUTY_LOAN.maxExemption)
      exemption        == IF applies THEN exemptableAmount * STAMP_DUTY_LOAN.rate ELSE 0
      belowExemption   == IF exemption = grossStampDuty THEN below.gross ELSE below.exemption
      belowNet         == IF exemption = 0 THEN below.gross ELSE below.net
  IN  [grossStampDuty |-> roundToTwoDecimals(grossStampDuty, Mill, below.gross),
       exemption      |-> roundToTwoDecimals(exemption, Mill, belowExemption),
       exemptionNote  |-> IF applies
                          THEN "First-time buyer exemption (100% on first RM500,000)"
                          ELSE "",
       netStampDuty   |-> roundToTwoDecimals(grossStampDuty - exemption, Mill, belowNet)]

\* the tiers of the longer of the two tables
MaxTiers == Max(Len(STAMP_DUTY_MOT.standard), Len(LEGAL_FEES.scale))

\* every way the half-sen ties of one call can fall
Ties ==
  [tier : [1..MaxTiers -> BOOLEAN], gross : BOOLEAN, exemption : BOOLEAN, net : BOOLEAN]

\* no half-sen tie among the roundings of a call
NoTies ==
  [tier |-> [i \in 1..MaxTiers |-> FALSE], gross |-> FALSE, exemption |-> FALSE,
   net |-> FALSE]

\* property prices on, next to and between the tier and exemption limits
PropertyPrices ==
  {0, 1, 50000, 99999, 100000, 100001, 250000, 299999, 300000, 300001, 499999,
   500000, 500001, 600000, 750000, 999999, 1000000, 1000001, 2000000, 2500000,
   2500001, 3000000}

\* amounts on, next to and between the limits of the legal fee scale
LegalAmounts ==
  {0, 1, 250000, 499999, 500000, 500001, 750000, 1000000, 1000002, 1000025,
   2000000, 3000000, 3000001, 4000000, 5000000, 5000001, 5000002, 7500000,
   7500002, 8000000}

\* lines 266-316
MOTCall ==
  /\ pc = "idle"
  /\ \E propertyPrice \in PropertyPrices, isFirstTimeBuyer \in BOOLEAN,
        applyHOC \in BOOLEAN, below \in Ties :
       /\ args' = [propertyPrice |-> propertyPrice, isFirstTimeBuyer |-> isFirstTimeBuyer,
                   applyHOC |-> applyHOC]
       /\ result' = calculateStampDutyMOT(propertyPrice, isFirstTimeBuyer, applyHOC, below)
  /\ fn' = "calculateStampDutyMOT"
  /\ pc' = "done"
  /\ UNCHANGED loopVars

\* lines 351-387
LegalCall ==
  /\ pc = "idle"
  /\ \E amount \in LegalAmounts, below \in Ties :
       /\ args' = [amount |-> amount]
       /\ result' = calculateLegalFees(amount, below)
  /\ fn' = "calculateLegalFees"
  /\ pc' = "done"
  /\ UNCHANGED loopVars

\* loans on, next to and on either side of the exemption cap
LoanAmounts ==
  {0, 1, 2, 100000, 400000, 499999, 500000, 500001, 500002, 500003, 750000, 900001}

\* the prices a loan duty is asked for: on and next to the eligibility ceiling
LoanPropertyPrices == {1, 400000, 500000, 500001, 800000}

\* every way the half-sen ties of one call of calculateStampDutyLoan can fall
LoanTies == [gross : BOOLEAN, exemption : BOOLEAN, net : BOOLEAN]

\* lines 325-344; the call may leave out propertyPrice
LoanDutyCall ==
  /\ pc = "idle"
  /\ \E loanAmount \in LoanAmounts, isFirstTimeBuyer \in BOOLEAN,
        propertyPrice \in {Undefined} \cup {Number(p) : p \in LoanPropertyPrices},
        below \in LoanTies :
       /\ args' = [loanAmount |-> loanAmount, isFirstTimeBuyer |-> isFirstTimeBuyer,
                   propertyPrice |-> propertyPrice]
       /\ result' = calculateStampDutyLoan(loanAmount, isFirstTimeBuyer,
                                           DefaultParameter(propertyPrice, 0), below)
  /\ fn' = "calculateStampDutyLoan"
  /\ pc' = "done"
  /\ UNCHANGED loopVars

NextLevy == MOTCall \/ LegalCall \/ LoanDutyCall

SpecLevy == InitIdle /\ [][NextLevy]_vars

-----------------------------------------------------------------------------
(* Upfront costs: calculateTotalUpfrontCosts.  Prices and loans are whole   *)
(* ringgit; valuationFee and totalCosts are carried in hundredths of a sen, *)
(* the decimals of propertyPrice * 0.0025.                                  *)

\* the unit of valuationFee and totalCosts: a hundredth of a sen
Myriad == Hundred * Hundred

\* line 405: Math.max(500, propertyPrice * 0.0025), in hundredths of a sen
ValuationFee(propertyPrice) == Max(500 * Myriad, propertyPrice * 25)

\* lines 407-432, given the four results of lines 399-402; below: the ties
\* of the roundings of valuationFee and of totalCosts
UpfrontCosts(propertyPrice, loanAmount, stampDutyMOT, stampDutyLoan, legalFeesSPA, legalFeesLoan, below) ==
  LET downPayment  == propertyPrice - loanAmount
      valuationFee == ValuationFee(propertyPrice)
      duties       == stampDutyMOT.netStampDuty + stampDutyLoan.netStampDuty
      fees         == legalFeesSPA.totalFees + legalFeesLoan.totalFees
      totalCosts   == downPayment * Myriad + (duties + fees) * (Myriad \div Mill)
                        + valuationFee
      rounded      == roundToTwoDecimals(totalCosts, Myriad, below.total)
      roundedFee   == roundToTwoDecimals(valuationFee, Myriad, below.valuationFee)
  IN  [propertyPrice      |-> propertyPrice,
       loanAmount         |-> loanAmount,
       downPayment        |-> Round2(downPayment * Mill),
       downPaymentPercent |-> Round2Micro(MulDivRound(downPayment, Hundred * Micro,
                                                      propertyPrice)),
       stampDutyMOT       |-> stampDutyMOT,
       stampDutyLoan      |-> stampDutyLoan,
       legalFeesSPA       |-> legalFeesSPA,
       legalFeesLoan      |-> legalFeesLoan,
       valuationFee       |-> roundedFee,
       totalCosts         |-> rounded,
       summary            |-> [downPayment  |-> Round2(downPayment * Mill),
                               stampDuty    |-> Round2(duties),
                               legalFees    |-> Round2(fees),
                               valuationFee |-> roundedFee,
                               total        |-> rounded]]

\* every rounding of calculateStampDutyLoan falling as below says
LoanTiesAll(below) == [gross |-> below, exemption |-> below, net |-> below]

\* lines 397-433.  below: the ties of the roundings, [loanDuty, valuationFee,
\* total]; for the prices and loans below, the roundings of the transfer
\* duty and of the legal fees are of whole sen
calculateTotalUpfrontCosts(propertyPrice, loanAmount, isFirstTimeBuyer, applyHOC, below) ==
  UpfrontCosts(propertyPrice, loanAmount,
               calculateStampDutyMOT(propertyPrice, isFirstTimeBuyer, applyHOC, NoTies),
               calculateStampDutyLoan(loanAmount, isFirstTimeBuyer, propertyPrice,
                                      LoanTiesAll(below.loanDuty)),
               calculateLegalFees(propertyPrice, NoTies),
               calculateLegalFees(loanAmount, NoTies),
               below)

\* prices whose valuation fee is the minimum, is a whole number of sen, and
\* ends on half a sen
UpfrontPrices == {150000, 200000, 200017, 200018, 200019, 200020, 200022}

\* loans of half, nine tenths and all but one ringgit of the price
UpfrontLoans(propertyPrice) ==
  {propertyPrice \div 2, (propertyPrice * 9) \div 10, propertyPrice - 1}

UpfrontTies == [loanDuty : BOOLEAN, valuationFee : BOOLEAN, total : BOOLEAN]

\* lines 397-433
UpfrontCall ==
  /\ pc = "idle"
  /\ \E propertyPrice \in UpfrontPrices, isFirstTimeBuyer \in BOOLEAN,
        applyHOC \in BOOLEAN, below \in UpfrontTies :
       \E loanAmount \in UpfrontLoans(propertyPrice) :
         /\ args' = [propertyPrice |-> propertyPrice, loanAmount |-> loanAmount,
                     isFirstTimeBuyer |-> isFirstTimeBuyer, applyHOC |-> applyHOC]
         /\ result' = calculateTotalUpfrontCosts(propertyPrice, loanAmount,
                                                 isFirstTimeBuyer, applyHOC, below)
  /\ fn' = "calculateTotalUpfrontCosts"
  /\ pc' = "done"
  /\ UNCHANGED loopVars

NextUpfront == UpfrontCall

SpecUpfront == InitIdle /\ [][NextUpfront]_vars

-----------------------------------------------------------------------------
(* Islamic financing: calculateIslamicMurabahah and calculateIslamicMM.     *)
(* Amounts are in mills; a field that can be NaN holds Number(n) or NaN.     *)

\* lines 442-460.  totalProfit, sellingPrice and monthlyPayment are in
\* micro-ringgit; profitRate is in basis points
calculateIslamicMurabahah(principal, profitRate, tenureYears) ==
  LET totalProfit    == MulDivRound(principal * Mill, profitRate * tenureYears,
                                    Hundred * Hundred)
      sellingPrice   == principal * Mill + totalProfit
      monthlyPayment == DivRound(sellingPrice, tenureYears * MonthsPerYear)
  IN  [type           |-> "Murabahah (BBA)",
       principal      |-> Round2(principal),
       profitRate     |-> profitRate,
       totalProfit    |-> Round2Micro(totalProfit),
       sellingPrice   |-> Round2Micro(sellingPrice),
       monthlyPayment |-> Round2Micro(monthlyPayment),
       tenureYears    |-> tenureYears,
       totalMonths    |-> tenureYears * MonthsPerYear]

\* lines 479-481: bankShare * (monthlyRate * pow) / (pow - 1), in
\* micro-ringgit; at a rate of 0 it is 0 / 0
MMPayment(bankShare, rentalRate, totalMonths) ==
  IF rentalRate = 0 THEN NaN
  ELSE Number(PMT(bankShare, rentalRate, totalMonths))

\* lines 483-484, in mills: NaN * totalMonths and NaN - bankShare are NaN
MMTotalPayment(monthlyPayment, totalMonths) ==
  IF monthlyPayment.type = "NaN" THEN NaN
  ELSE Number(MulDivRound(monthlyPayment.value, totalMonths, Mill))

MMTotalRental(totalPayment, bankShare) ==
  IF totalPayment.type = "NaN" THEN NaN
  ELSE Number(totalPayment.value - bankShare)

\* lines 486-498, given the payment of lines 479-481
MMResult(principal, customerContribution, rentalRate, tenureYears, monthlyPayment) ==
  LET bankShare    == principal - customerContribution
      totalMonths  == tenureYears * MonthsPerYear
      totalPayment == MMTotalPayment(monthlyPayment, totalMonths)
  IN  [type                 |-> "Musharakah Mutanaqisah",
       propertyValue        |-> Round2(principal),
       customerInitialShare |-> Round2(customerContribution),
       bankShare            |-> Round2(bankShare),
       rentalRate           |-> rentalRate,
       monthlyPayment       |-> RoundNumber(monthlyPayment, Micro),
       totalPayment         |-> RoundNumber(totalPayment, Mill),
       totalRental          |-> RoundNumber(MMTotalRental(totalPayment, bankShare), Mill),
       tenureYears          |-> tenureYears,
       totalMonths          |-> totalMonths]

\* lines 470-499
calculateIslamicMM(principal, customerContribution, rentalRate, tenureYears) ==
  MMResult(principal, customerContribution, rentalRate, tenureYears,
           MMPayment(principal - customerContribution, rentalRate,
                     tenureYears * MonthsPerYear))

\* bank shares of 30 to 1200 ringgit, with customer contributions of nothing,
\* 20 and 100 ringgit
MMBankShares == {30000, 120000, 180000, 300000, 600000, 1200000}

MMInputs ==
  {[principal |-> b + c, customerContribution |-> c, rentalRate |-> r, tenureYears |-> t] :
     b \in MMBankShares, c \in {0, 20000, 100000}, r \in {0, 400, 1200}, t \in {1, 2, 20}}

\* lines 470-499
MMCall ==
  /\ pc = "idle"
  /\ \E a \in MMInputs :
       /\ args' = a
       /\ result' = calculateIslamicMM(a.principal, a.customerContribution, a.rentalRate,
                                       a.tenureYears)
  /\ fn' = "calculateIslamicMM"
  /\ pc' = "done"
  /\ UNCHANGED loopVars

NextMM == MMCall

SpecMM == InitIdle /\ [][NextMM]_vars

-----------------------------------------------------------------------------
(* Ownership of results: a caller calls calculateLegalFees, writes to what  *)
(* it was returned, and calls again.  A write to a field of the returned    *)
(* record or of a row of its breakdown changes that record; a write through *)
(* result.additionalFees changes the object it refers to.                   *)

OwnedAmounts == {100000, 750000}

\* the amounts a caller writes, in ringgit
WrittenValues == {0, 5000}

\* the object that the reference refers to, as it is in memory
Deref(ref) == legalAdditionalFees

\* what the caller reads in a returned record, nested objects included
ReadAll(r) == [r EXCEPT !.additionalFees = Deref(r.additionalFees)]

\* lines 351-387, called by a caller that may hold earlier results
OwnedLegalCall ==
  /\ pc \in {"idle", "done", "written"}
  /\ \E amount \in OwnedAmounts :
       LET r == calculateLegalFees(amount, NoTies)
       IN  /\ args' = [amount |-> amount]
           /\ result' = r
           /\ firstReturned' =
                IF firstReturned.taken THEN firstReturned
                ELSE [taken |-> TRUE, args |-> [amount |-> amount], values |-> ReadAll(r)]
  /\ fn' = "calculateLegalFees"
  /\ pc' = "done"
  /\ UNCHANGED <<original, balance, month, totalInterestPaid, totalPaid, scheduleVars,
                 legalAdditionalFees, appVars>>

\* result.totalFees = v
CallerWritesField ==
  /\ pc \in {"done", "written"}
  /\ \E v \in WrittenValues : result' = [result EXCEPT !.totalFees = v * Mill]
  /\ pc' = "written"
  /\ UNCHANGED <<fn, args, original, balance, month, totalInterestPaid, totalPaid,
                 scheduleVars, outerVars>>

\* result.breakdown[0].fee = v
CallerWritesRow ==
  /\ pc \in {"done", "written"}
  /\ \E v \in WrittenValues : result' = [result EXCEPT !.breakdown[1].fee = v * Mill]
  /\ pc' = "written"
  /\ UNCHANGED <<fn, args, original, balance, month, totalInterestPaid, totalPaid,
                 scheduleVars, outerVars>>

\* result.additionalFees[key] = v: the write goes to the object that
\* line 382 put in the record
CallerWritesNested ==
  /\ pc \in {"done", "written"}
  /\ \E key \in DOMAIN legalAdditionalFees, v \in WrittenValues :
       /\ result.additionalFees = AdditionalFeesRef
       /\ legalAdditionalFees' = [legalAdditionalFees EXCEPT ![key] = v]
  /\ pc' = "written"
  /\ UNCHANGED <<fn, args, result, original, balance, month, totalInterestPaid, totalPaid,
                 scheduleVars, firstReturned, appVars>>

NextOwnership ==
  OwnedLegalCall \/ CallerWritesField \/ CallerWritesRow \/ CallerWritesNested

SpecOwnership == InitIdle /\ [][NextOwnership]_vars

-----------------------------------------------------------------------------
(* The calculator tab of app.js: the loan type toggle, the submit handler   *)
(* calculateMortgage and exportToCSV, one action per handler.  The form's   *)
(* inputs are number inputs: the value of one is empty or a number.  The    *)
(* loan amount is in mills, the rate in basis points, the tenure in tenths  *)
(* of a year.  What the handlers render is left out.                        *)

\* the value of a number input that is empty or does not hold a number
EmptyField == [type |-> "empty", value |-> 0]

\* parseFloat of the value of a number input
ParseFloat(field) == IF field.type = "empty" THEN NaN ELSE field

\* parseInt of the value of a number input in tenths: the digits before the
\* decimal point
ParseInt(field) == IF field.type = "empty" THEN NaN ELSE Number(field.value \div 10)

\* !x of a number: true of NaN and of 0
Falsy(x) == x.type = "NaN" \/ x.value = 0

\* line 193, document.getElementById('islamicType')?.value || 'mm'
IslamicTypeOrDefault(value) == IF value = "" THEN "mm" ELSE value

\* a handler that exports whatever there is
NothingToExportNever(data) == FALSE

\* line 817, !state.amortizationData.length
NothingToExport(data) == Len(data) = 0

\* lines 190-203: the engine function called, and its result
MortgageEngine(type, islamicType) ==
  IF type = "islamic"
  THEN IF IslamicTypeOrDefault(islamicType) = "murabahah"
       THEN "calculateIslamicMurabahah" ELSE "calculateIslamicMM"
  ELSE "calculateMonthlyPayment"

\* lines 198-199: propertyValue = loanAmount / 0.9, and a contribution of
\* propertyValue * 0.1
MortgageResults(engine, loanAmount, interestRate, tenure) ==
  IF engine = "calculateIslamicMurabahah"
  THEN calculateIslamicMurabahah(loanAmount, interestRate, tenure)
  ELSE IF engine = "calculateIslamicMM"
  THEN calculateIslamicMM(MulDivRound(loanAmount, 10, 9),
                          MulDivRound(MulDivRound(loanAmount, 10, 9), 1, 10),
                          interestRate, tenure)
  ELSE calculateMonthlyPayment(loanAmount, interestRate, tenure)

\* the files a session downloads at most
MaxDownloads == 1

\* a loan of 120 ringgit at 4 % over "1.5" years, and fields left empty, 0
\* or, for the tenure, "0.5"
MortgageFields ==
  [loanAmount   : {EmptyField, Number(0), Number(120000)},
   interestRate : {EmptyField, Number(0), Number(400)},
   tenure       : {EmptyField, Number(0), Number(5), Number(15)},
   islamicType  : {"", "murabahah"}]

\* lines 63-69: the loan type toggle
ChangeLoanType ==
  /\ pc = "idle"
  /\ \E value \in {"conventional", "islamic"} : loanType' = value
  /\ fn' = "change"
  /\ called' = <<>>
  /\ UNCHANGED <<pc, args, result, original, balance, month, totalInterestPaid, totalPaid,
                 scheduleVars, heapVars, currentResults, amortizationData, toast,
                 downloads>>

\* lines 180-213: the submit handler
CalculateMortgage ==
  /\ pc = "idle"
  /\ \E f \in MortgageFields :
       LET loanAmount   == ParseFloat(f.loanAmount)
           interestRate == ParseFloat(f.interestRate)
           tenure       == ParseInt(f.tenure)
           engine       == MortgageEngine(loanType, f.islamicType)
       IN  /\ args' = f
           /\ IF Falsy(loanAmount) \/ Falsy(interestRate) \/ Falsy(tenure)
              THEN /\ toast' = "Please fill in all required fields"
                   /\ called' = <<>>
                   /\ UNCHANGED <<currentResults, amortizationData>>
              ELSE /\ currentResults' =
                        MortgageResults(engine, loanAmount.value, interestRate.value,
                                        tenure.value)
                   /\ amortizationData' =
                        generateAmortizationSchedule(loanAmount.value, interestRate.value,
                                                     tenure.value)
                   /\ called' = <<engine, "generateAmortizationSchedule">>
                   /\ UNCHANGED toast
  /\ fn' = "calculateMortgage"
  /\ UNCHANGED <<pc, result, original, balance, month, totalInterestPaid, totalPaid,
                 scheduleVars, heapVars, loanType, downloads>>

\* lines 816-836: the export button
ExportToCSV ==
  /\ pc = "idle"
  /\ IF NothingToExport(amortizationData)
     THEN /\ toast' = "No data to export. Please calculate first."
          /\ UNCHANGED downloads
     ELSE /\ downloads < MaxDownloads
          /\ downloads' = downloads + 1
          /\ UNCHANGED toast
  /\ fn' = "exportToCSV"
  /\ args' = None
  /\ called' = <<>>
  /\ UNCHANGED <<pc, result, original, balance, month, totalInterestPaid, totalPaid,
                 scheduleVars, heapVars, loanType, currentResults, amortizationData>>

\* lines 854-857: the toast is removed after three seconds
ToastExpires ==
  /\ pc = "idle"
  /\ toast /= None
  /\ toast' = None
  /\ fn' = "setTimeout"
  /\ called' = <<>>
  /\ UNCHANGED <<pc, args, result, original, balance, month, totalInterestPaid, totalPaid,
                 scheduleVars, heapVars, loanType, currentResults, amortizationData,
                 downloads>>

NextApp == ChangeLoanType \/ CalculateMortgage \/ ExportToCSV \/ ToastExpires

SpecApp == InitIdle /\ [][NextApp]_vars

-----------------------------------------------------------------------------
(* Claims about calculateExtraPaymentImpact                                 *)

\* C1: calculateExtraPaymentImpact terminates: once no lump sum is still to
\* come, every iteration of its loop strictly reduces the balance, so that
\* balance <= 0 is reached in finitely many iterations (an iteration that does
\* not reduce the balance is repeated without end, since the payment stays
\* the same and the interest does not decrease)
C1_EveryIterationReducesBalance ==
  [][(/\ pc = "loop"
      /\ month' = month + 1
      /\ (args.lumpSum = 0 \/ month' > args.lumpSumMonth))
     => balance' < balance]_vars

\* C2: on return the accumulated total paid equals the original principal
\* plus the accumulated interest paid, before output rounding, also when the
\* lump sum is larger than the balance of its month
C2_TotalPaidIsPrincipalPlusInterest ==
  pc = "done" => totalPaid = args.principal + totalInterestPaid

\* C3: the months simulated never exceed tenureYears * 12, so that
\* savings.monthsSaved is never negative
C3_MonthsSavedNotNegative ==
  pc = "done" =>
    /\ result.withExtraPayments.totalMonths <= args.tenureYears * MonthsPerYear
    /\ result.savings.monthsSaved >= 0

\* the baseline payment exceeds the interest of the first month
Amortizing ==
  original.monthlyPayment > InterestPayment(args.principal, args.annualRate)

\* C4 as stated: an amortizing loan with extraMonthly > 0 finishes in fewer
\* months than tenureYears * 12 and reports interestSaved > 0
C4_ExtraShortensAndSaves ==
  (pc = "done" /\ args.extraMonthly > 0 /\ Amortizing) =>
    /\ result.withExtraPayments.totalMonths < args.tenureYears * MonthsPerYear
    /\ result.savings.interestSaved > 0

\* C4 amended: with an extra monthly payment of one sen or more the loan
\* finishes in no more months than tenureYears * 12 and the interest saved is
\* not negative; for principal 300000, rate 4.0, tenure 20 and 500 extra a month
\* it finishes in 170 months, fewer than 240, and interestSaved is
\* 43032.08, more than 0
C4_ExtraNeverLengthens ==
  (pc = "done" /\ args.extraMonthly > 0) =>
    /\ result.withExtraPayments.totalMonths <= args.tenureYears * MonthsPerYear
    /\ result.savings.interestSaved >= 0
    /\ args = Scenario3 =>
         /\ result.withExtraPayments.totalMonths = 170
         /\ result.withExtraPayments.totalMonths < result.original.totalMonths
         /\ result.savings.interestSaved = 43032080
         /\ result.savings.interestSaved > 0

\* the scenario of C4 has returned
C4_Scenario3Returned ==
  /\ pc = "done"
  /\ args = Scenario3
  /\ result.original.totalMonths = 240
  /\ result.withExtraPayments.totalMonths = 170

-----------------------------------------------------------------------------
(* Claims about compareRefinancing                                          *)

\* the monthly difference of a returned comparison: current payment minus
\* proposed payment
ReturnedMonthlyDifference ==
  result.current.monthlyPayment - result.refinanced.monthlyPayment

RefiReturned == pc = "done" /\ fn = "compareRefinancing"

\* C5: whenever the monthly difference is <= 0, comparison.breakEvenMonths is
\* the not-applicable sentinel 'N/A', not a number, and
\* comparison.worthRefinancing is false, whatever the sign of netSavings
C5_NoBreakEvenWithoutMonthlySaving ==
  (RefiReturned /\ ReturnedMonthlyDifference <= 0) =>
    /\ result.comparison.breakEvenMonths = NotApplicable
    /\ result.comparison.breakEvenMonths.type # "number"
    /\ result.comparison.breakEvenYears = NotApplicable
    /\ result.comparison.worthRefinancing = FALSE

\* a comparison with a monthly difference below 0 and net savings above 0
C5_DearerPaymentYetNetSavings ==
  /\ RefiReturned
  /\ ReturnedMonthlyDifference < 0
  /\ result.comparison.netSavings > 0
  /\ result.comparison.breakEvenMonths = NotApplicable
  /\ ~result.comparison.worthRefinancing

\* C6: comparison.worthRefinancing is true exactly when netSavings > 0 and
\* breakEvenMonths is a number strictly less than the proposed tenure in
\* months, and false when either fails
C6_WorthRefinancingIffSavingsAndBreakEven ==
  RefiReturned =>
    (result.comparison.worthRefinancing
       <=> /\ result.comparison.netSavings > 0
           /\ result.comparison.breakEvenMonths.type = "number"
           /\ result.comparison.breakEvenMonths.value < result.refinanced.newTenureMonths)

\* a comparison with net savings above 0 whose break-even comes no sooner
\* than the end of the proposed tenure
C6_SavingsButLateBreakEven ==
  /\ RefiReturned
  /\ result.comparison.netSavings > 0
  /\ result.comparison.breakEvenMonths.type = "number"
  /\ result.comparison.breakEvenMonths.value >= result.refinanced.newTenureMonths
  /\ ~result.comparison.worthRefinancing

-----------------------------------------------------------------------------
(* Claims about calculateAffordability                                      *)

AffordReturned == pc = "done" /\ fn = "calculateAffordability"

\* monthlyIncome * dsrLimit - existingCommitments of the call, in units of
\* 1/100000 ringgit
ArgsAvailable ==
  args.monthlyIncome * args.dsrLimit - args.existingCommitments * Hundred

\* the returned maxMonthlyPayment is the amount
\* monthlyIncome * dsrLimit - existingCommitments rounded to two decimals: a
\* whole number of sen within half a sen of it
MaxPaymentIsRoundedAvailable ==
  /\ result.maxMonthlyPayment % (Mill \div Hundred) = 0
  /\ result.maxMonthlyPayment * Hundred - ArgsAvailable <= DsrUnit \div (2 * Hundred)
  /\ ArgsAvailable - result.maxMonthlyPayment * Hundred <= DsrUnit \div (2 * Hundred)

\* C8 as stated: canAfford = false, maxLoanAmount = 0 and maxMonthlyPayment = 0
\* whenever existingCommitments >= monthlyIncome * dsrLimit, and otherwise
\* canAfford = true with maxMonthlyPayment equal, as a currency output of two
\* decimals, to monthlyIncome * dsrLimit - existingCommitments, and above 0
C8_MaxPaymentPositive ==
  AffordReturned =>
    IF args.existingCommitments * Hundred >= args.monthlyIncome * args.dsrLimit
    THEN /\ result.canAfford = FALSE
         /\ result.maxLoanAmount = Number(0)
         /\ result.maxMonthlyPayment = 0
    ELSE /\ result.canAfford = TRUE
         /\ MaxPaymentIsRoundedAvailable
         /\ result.maxMonthlyPayment > 0

\* C8 amended: canAfford = false, maxLoanAmount = 0 and maxMonthlyPayment = 0
\* whenever existingCommitments >= monthlyIncome * dsrLimit, and otherwise
\* canAfford = true with maxMonthlyPayment the amount
\* monthlyIncome * dsrLimit - existingCommitments rounded to two decimals,
\* which is never negative, is above 0 when the amount is above half a sen
\* and is 0 when the amount is below half a sen
C8_MaxPaymentIsRoundedAvailableAmount ==
  AffordReturned =>
    IF args.existingCommitments * Hundred >= args.monthlyIncome * args.dsrLimit
    THEN /\ result.canAfford = FALSE
         /\ result.maxLoanAmount = Number(0)
         /\ result.maxMonthlyPayment = 0
    ELSE /\ result.canAfford = TRUE
         /\ MaxPaymentIsRoundedAvailable
         /\ result.maxMonthlyPayment >= 0
         /\ ArgsAvailable > DsrUnit \div (2 * Hundred) => result.maxMonthlyPayment > 0
         /\ ArgsAvailable < DsrUnit \div (2 * Hundred) => result.maxMonthlyPayment = 0

\* a call with existingCommitments below monthlyIncome * dsrLimit that
\* returns canAfford = true and maxMonthlyPayment = 0
C8_AffordsNothing ==
  /\ AffordReturned
  /\ ArgsAvailable > 0
  /\ result.canAfford = TRUE
  /\ result.maxMonthlyPayment = 0

-----------------------------------------------------------------------------
(* Claims about calculateStampDutyMOT and calculateLegalFees                *)

MOTReturned == pc = "done" /\ fn = "calculateStampDutyMOT"

LegalReturned == pc = "done" /\ fn = "calculateLegalFees"

\* rate * max(0, min(propertyPrice, tier.max) - tier.min) summed over the
\* tiers from i on, in sen
RECURSIVE MarginalReference(_, _)
MarginalReference(i, propertyPrice) ==
  IF i > Len(STAMP_DUTY_MOT.standard) THEN 0
  ELSE LET tier == STAMP_DUTY_MOT.standard[i]
       IN  tier.rate * Max(0, Min(propertyPrice, tier.max) - tier.min)
             + MarginalReference(i + 1, propertyPrice)

\* C9: for every propertyPrice >= 0 grossStampDuty is the marginal-tier
\* reference, the sum over the tiers of
\* rate * max(0, min(propertyPrice, tier.max) - tier.min); for a price of
\* 600000 it is 1000 + 8000 + 3000 = 12000
C9_GrossDutyIsMarginalReference ==
  MOTReturned =>
    /\ result.grossStampDuty
         = MarginalReference(1, args.propertyPrice) * (Mill \div Hundred)
    /\ args.propertyPrice = 600000 =>
         result.grossStampDuty = (1000 + 8000 + 3000) * Mill

\* the price of 600000 without first-time-buyer status: three tiers, with
\* duties of 1000, 8000 and 3000, and a gross duty of 12000
C9_Price600000 ==
  /\ MOTReturned
  /\ args.propertyPrice = 600000
  /\ ~args.isFirstTimeBuyer
  /\ Len(result.breakdown) = 3
  /\ result.breakdown[1].duty = 1000 * Mill
  /\ result.breakdown[2].duty = 8000 * Mill
  /\ result.breakdown[3].duty = 3000 * Mill
  /\ result.grossStampDuty = 12000 * Mill

\* the sum of the numbers of a sequence from place i on
RECURSIVE SumFrom(_, _)
SumFrom(seq, i) == IF i > Len(seq) THEN 0 ELSE seq[i] + SumFrom(seq, i + 1)

\* the duties, fees and taxable amounts of the entries of a breakdown
Duties(breakdown) == [i \in 1..Len(breakdown) |-> breakdown[i].duty]

TaxableAmounts(breakdown) == [i \in 1..Len(breakdown) |-> breakdown[i].taxableAmount]

Fees(breakdown) == [i \in 1..Len(breakdown) |-> breakdown[i].fee]

Amounts(breakdown) == [i \in 1..Len(breakdown) |-> breakdown[i].amount]

\* C10: for every base amount, tier boundaries included, the breakdown of
\* calculateStampDutyMOT and of calculateLegalFees sums to the gross amount,
\* its taxable amounts sum to the base amount, and every entry has a
\* strictly positive taxable amount
C10_BreakdownSumsToGross ==
  /\ MOTReturned =>
       /\ SumFrom(Duties(result.breakdown), 1) = result.grossStampDuty
       /\ SumFrom(TaxableAmounts(result.breakdown), 1) = args.propertyPrice
       /\ \A i \in 1..Len(result.breakdown) : result.breakdown[i].taxableAmount > 0
  /\ LegalReturned =>
       /\ SumFrom(Fees(result.breakdown), 1) = result.baseFees
       /\ SumFrom(Amounts(result.breakdown), 1) = args.amount
       /\ \A i \in 1..Len(result.breakdown) : result.breakdown[i].amount > 0

-----------------------------------------------------------------------------
(* Exemptions of the stamp duty on the transfer                             *)

\* the first-time-buyer rule of calculateStampDutyMOT applies to the call
ArgsFirstTime ==
  args.isFirstTimeBuyer /\ args.propertyPrice <= 500000

\* the price of the call lies in the campaign band
ArgsInCampaignBand ==
  args.propertyPrice >= 300000 /\ args.propertyPrice <= 2500000

\* x is 75 % of the gross duty g, both in mills, to two decimals
IsThreeQuarters(x, g) ==
  4 * x >= 3 * g - 2 * (Mill \div Hundred) /\ 4 * x <= 3 * g + 2 * (Mill \div Hundred)

\* C11: calculateStampDutyMOT applies at most one exemption: for a first-time
\* buyer and a price up to 500000 the exemption is the whole gross duty, also
\* when applyHOC is set and the price is in the campaign band; the 75 %
\* exemption applies only when the first-time-buyer exemption does not and the
\* price is between 300000 and 2500000; otherwise the exemption is 0
C11_AtMostOneExemption ==
  MOTReturned =>
    IF ArgsFirstTime
    THEN result.exemption = result.grossStampDuty
    ELSE IF args.applyHOC /\ ArgsInCampaignBand
    THEN IsThreeQuarters(result.exemption, result.grossStampDuty)
    ELSE result.exemption = 0

\* C11 witness: a first-time buyer with applyHOC set, at a price where both
\* rules qualify, is exempted the whole of a positive duty
C11_BothQualifyFirstTimeWins ==
  /\ MOTReturned
  /\ ArgsFirstTime /\ args.applyHOC /\ ArgsInCampaignBand
  /\ result.grossStampDuty > 0
  /\ result.exemption = result.grossStampDuty
  /\ result.netStampDuty = 0

-----------------------------------------------------------------------------
(* Exemption of the stamp duty on the loan agreement                        *)

LoanDutyReturned == pc = "done" /\ fn = "calculateStampDutyLoan"

\* x is the duty on a loan of a ringgit, in mills, to two decimals
IsDutyOn(x, a) ==
  /\ x % (Mill \div Hundred) = 0
  /\ 2 * (x - a * 5) <= Mill \div Hundred
  /\ 2 * (a * 5 - x) <= Mill \div Hundred

\* C12: calculateStampDutyLoan grants the first-time-buyer exemption only
\* when a property price is supplied and is at most 500000, the exemption is
\* then the duty on min(loanAmount, 500000), a loan above the cap pays duty on
\* the excess, and a call that supplies no property price is exempted nothing
C12_LoanExemptionNeedsEligiblePrice ==
  LoanDutyReturned =>
    IF /\ args.isFirstTimeBuyer
       /\ args.propertyPrice # Undefined
       /\ args.propertyPrice.value <= 500000
    THEN /\ IsDutyOn(result.exemption, Min(args.loanAmount, 500000))
         /\ IsDutyOn(result.netStampDuty, args.loanAmount - Min(args.loanAmount, 500000))
    ELSE result.exemption = 0

-----------------------------------------------------------------------------
(* Net duty of the two stamp duties                                         *)

\* no exemption rule applies to the call of calculateStampDutyMOT
NoMOTRuleApplies ==
  ~ArgsFirstTime /\ ~(args.applyHOC /\ ArgsInCampaignBand)

\* no exemption rule applies to the call of calculateStampDutyLoan
NoLoanRuleApplies ==
  ~(args.isFirstTimeBuyer /\ DefaultParameter(args.propertyPrice, 0) <= 500000)

\* C13: in the results of calculateStampDutyMOT and calculateStampDutyLoan,
\* netStampDuty = grossStampDuty - exemption with 0 <= exemption <=
\* grossStampDuty, and exemption is 0 and exemptionNote is empty whenever no
\* exemption rule applies
C13_NetIsGrossLessExemption ==
  (MOTReturned \/ LoanDutyReturned) =>
    /\ result.netStampDuty = result.grossStampDuty - result.exemption
    /\ 0 <= result.exemption
    /\ result.exemption <= result.grossStampDuty
    /\ ((MOTReturned /\ NoMOTRuleApplies) \/ (LoanDutyReturned /\ NoLoanRuleApplies))
         => (result.exemption = 0 /\ result.exemptionNote = "")

-----------------------------------------------------------------------------
(* Rows of the amortization schedule                                        *)

ScheduleReturned == pc = "done" /\ fn = "generateAmortizationSchedule"

\* C14: generateAmortizationSchedule returns exactly tenureYears * 12 rows,
\* row i having month = i and year = ceil(i / 12), also when the balance
\* reaches 0 before the last month
C14_OneRowPerMonth ==
  ScheduleReturned =>
    /\ Len(result) = args.tenureYears * 12
    /\ \A i \in 1..Len(result) :
         /\ result[i].month = i
         /\ (result[i].year - 1) * 12 < i
         /\ i <= result[i].year * 12

\* C14 witness: a schedule of 240 rows whose balance is 0 from a row before
\* the last on
C14_PaidOffBeforeLastRow ==
  /\ ScheduleReturned
  /\ Len(result) = 240
  /\ \E i \in 1..(Len(result) - 1) : result[i].balance = 0 /\ result[i].principal > 0
  /\ result[Len(result)].month = 240
  /\ result[Len(result)].year = 20

\* C15: the last row of the schedule has balance 0.00 and a
\* cumulativePrincipal within 0.01 * totalMonths of the principal
C15_LastRowClosesTheLoan ==
  ScheduleReturned =>
    LET last      == result[Len(result)]
        tolerance == (Mill \div Hundred) * args.tenureYears * 12
    IN  /\ last.balance = 0
        /\ last.cumulativePrincipal - args.principal <= tolerance
        /\ args.principal - last.cumulativePrincipal <= tolerance

\* C16: across the rows of the schedule the balance never rises from one
\* month to the next, starting from the principal, and is never negative
C16_BalanceNeverRises ==
  ScheduleReturned =>
    \A i \in 1..Len(result) :
      /\ result[i].balance >= 0
      /\ result[i].balance <= (IF i = 1 THEN args.principal ELSE result[i - 1].balance)

-----------------------------------------------------------------------------
(* The record returned by calculateMonthlyPayment                           *)

PaymentReturned == pc = "done" /\ fn = "calculateMonthlyPayment"

TotalMonthsOfArgs == args.tenureYears * 12

\* C17: when annualRate = 0, calculateMonthlyPayment returns monthlyPayment =
\* principal / (tenureYears * 12) exactly, totalInterest = 0, totalPayment =
\* principal and effectiveRate = 0
C17_ZeroRatePaymentIsExactQuotient ==
  (PaymentReturned /\ args.annualRate = 0) =>
    /\ result.monthlyPayment * TotalMonthsOfArgs = args.principal
    /\ result.totalInterest = 0
    /\ result.totalPayment = args.principal
    /\ result.effectiveRate = 0

\* C17 witness: a zero-rate payment that is not a whole number of sen, 30
\* ringgit over 240 months being 0.125 a month
C17_ZeroRatePaymentOfAnEighth ==
  /\ PaymentReturned
  /\ args.annualRate = 0
  /\ args.principal = 30 * Mill
  /\ TotalMonthsOfArgs = 240
  /\ result.monthlyPayment = 125

\* C18: monthlyPayment, totalPayment, totalInterest and effectiveRate returned
\* by calculateMonthlyPayment are rounded to 2 decimals on every path, the
\* zero-rate path included
C18_EveryFieldHasTwoDecimals ==
  PaymentReturned =>
    /\ result.monthlyPayment % (Mill \div Hundred) = 0
    /\ result.totalPayment % (Mill \div Hundred) = 0
    /\ result.totalInterest % (Mill \div Hundred) = 0
    /\ result.effectiveRate % (Mill \div Hundred) = 0

\* C20: the returned fields of calculateMonthlyPayment satisfy
\* |totalPayment - monthlyPayment * tenureYears * 12| <= 0.01 and
\* |totalInterest - (totalPayment - principal)| <= 0.01
C20_TotalsAgreeWithinOneSen ==
  PaymentReturned =>
    LET product  == result.monthlyPayment * TotalMonthsOfArgs
        interest == result.totalPayment - args.principal
        sen      == Mill \div Hundred
    IN  /\ result.totalPayment - product <= sen
        /\ product - result.totalPayment <= sen
        /\ result.totalInterest - interest <= sen
        /\ interest - result.totalInterest <= sen

-----------------------------------------------------------------------------
(* Ties of roundToTwoDecimals                                               *)

RoundReturned == pc = "done" /\ fn = "roundToTwoDecimals"

\* the multiple of 0.01 nearest to an amount of num mills, ties going away
\* from zero
HalfAwayFromZero(num) ==
  LET sen == Mill \div Hundred
  IN  IF num >= 0 THEN ((num + sen \div 2) \div sen) * sen
      ELSE -(((-num + sen \div 2) \div sen) * sen)

\* C19: roundToTwoDecimals rounds an amount that is an exact multiple of
\* 0.001 to the nearest 0.01, ties going away from zero for both signs
\* (-0.125 gives -0.13)
C19_TiesAwayFromZero ==
  RoundReturned => result = HalfAwayFromZero(args.num)

-----------------------------------------------------------------------------
\* C21: a returned record shares nothing mutable with the configuration or with
\* another result: whatever the caller has written to the records it was
\* returned, LEGAL_FEES.additionalFees is as data.js defines it, and a call
\* with the arguments of the first call returns the values the first call
\* returned.
OwnedReturned == pc = "done" /\ fn = "calculateLegalFees" /\ firstReturned.taken

C21_ResultsShareNothingMutable ==
  /\ legalAdditionalFees = LEGAL_FEES.additionalFees
  /\ (OwnedReturned /\ args = firstReturned.args)
       => ReadAll(result) = firstReturned.values

-----------------------------------------------------------------------------
\* C22: totalCosts is the sum of the down payment, the two net duties, the two
\* legal fees and max(500, 0.25 % of propertyPrice), to two decimals;
\* summary.total is totalCosts, and it is the sum of summary.downPayment,
\* summary.stampDuty, summary.legalFees and summary.valuationFee.
UpfrontReturned == pc = "done" /\ fn = "calculateTotalUpfrontCosts"

\* the sum of the claim, in hundredths of a sen
UpfrontSum ==
  (args.propertyPrice - args.loanAmount) * Myriad
    + (result.stampDutyMOT.netStampDuty + result.stampDutyLoan.netStampDuty
         + result.legalFeesSPA.totalFees + result.legalFeesLoan.totalFees) * 10
    + Max(500 * Myriad, (args.propertyPrice * 25))

TotalIsRoundedSum ==
  /\ result.totalCosts * 10 - UpfrontSum <= 50
  /\ UpfrontSum - result.totalCosts * 10 <= 50
  /\ result.totalCosts % 10 = 0

C22_TotalIsSumOfParts ==
  UpfrontReturned =>
    /\ TotalIsRoundedSum
    /\ result.summary.total = result.totalCosts
    /\ result.summary.total =
         result.summary.downPayment + result.summary.stampDuty
           + result.summary.legalFees + result.summary.valuationFee

-----------------------------------------------------------------------------
\* C23: for every rate >= 0 and tenure > 0, monthlyPayment and totalPayment of
\* calculateIslamicMM are those of calculateMonthlyPayment on
\* bankShare = propertyValue - customerContribution, and totalRental is its
\* totalInterest.
MMReturned == pc = "done" /\ fn = "calculateIslamicMM"

\* calculateMonthlyPayment(bankShare, rate, tenure) for the arguments of the call
AnnuityOnBankShare ==
  calculateMonthlyPayment(args.principal - args.customerContribution, args.rentalRate,
                          args.tenureYears)

C23_MMIsAnnuityOnBankShare ==
  MMReturned =>
    /\ result.monthlyPayment = Number(AnnuityOnBankShare.monthlyPayment)
    /\ result.totalPayment = Number(AnnuityOnBankShare.totalPayment)
    /\ result.totalRental = Number(AnnuityOnBankShare.totalInterest)

-----------------------------------------------------------------------------
\* C24: whenever something is available for the mortgage, at any rate >= 0,
\* maxLoanAmount is a number >= 0, and the monthly payment of a loan of
\* maxLoanAmount at the rate and tenure of the call is maxMonthlyPayment to
\* within a sen.  (The payment is recomputed where its micro-ringgit fit the
\* largest integer.)
RecomputedPayment ==
  calculateMonthlyPayment(result.maxLoanAmount.value, args.annualRate,
                          args.tenureYears).monthlyPayment

PaymentRecomputable == result.maxMonthlyPayment < MaxInt \div Mill

WithinOneSen(x, y) == x - y <= Mill \div Hundred /\ y - x <= Mill \div Hundred

C24_MaxLoanInvertsPayment ==
  (AffordReturned /\ result.canAfford) =>
    /\ result.maxLoanAmount.type = "number"
    /\ result.maxLoanAmount.value >= 0
    /\ PaymentRecomputable => WithinOneSen(RecomputedPayment, result.maxMonthlyPayment)

-----------------------------------------------------------------------------
\* C25: the iterations of calculateExtraPaymentImpact count the months one by
\* one; the lump sum is taken off the balance, and added to the amount paid,
\* in the iteration of month lumpSumMonth if lumpSum > 0 and in no other; the
\* interest of that month is the interest on the balance after the lump sum;
\* in every other month the balance goes down by the regular payment less
\* interest plus extraMonthly, or to 0 with the closing payment.  A
\* lumpSumMonth that the loop does not reach is therefore never applied.
LumpSumDue == month' = args.lumpSumMonth /\ args.lumpSum > 0

\* the balance on which the month's interest is due
BalanceForInterest == IF LumpSumDue THEN Max(0, balance - args.lumpSum) ELSE balance

InterestDue == InterestPayment(BalanceForInterest, args.annualRate)

PrincipalDue == original.monthlyPayment - InterestDue + args.extraMonthly

\* what the month adds to the amount paid, the lump sum aside
PaidInMonth == totalPaid' - totalPaid - (IF LumpSumDue THEN args.lumpSum ELSE 0)

C25_LumpSumOnceBeforeInterest ==
  [][(pc = "loop" /\ fn = "calculateExtraPaymentImpact") =>
       IF month' = month
       THEN balance' = balance /\ totalPaid' = totalPaid
       ELSE /\ month' = month + 1
            /\ IF BalanceForInterest <= 0
               THEN /\ balance' = 0
                    /\ totalInterestPaid' = totalInterestPaid
                    /\ PaidInMonth = 0
               ELSE /\ totalInterestPaid' = totalInterestPaid + InterestDue
                    /\ \/ /\ balance' = BalanceForInterest - PrincipalDue
                          /\ PaidInMonth = original.monthlyPayment + args.extraMonthly
                       \/ /\ balance' = 0
                          /\ PaidInMonth = BalanceForInterest + InterestDue]_vars

\* a lump sum smaller than the balance has been taken off in month 3, after
\* two regular months
C25_LumpSumTakenInMonthThree ==
  /\ pc = "loop"
  /\ fn = "calculateExtraPaymentImpact"
  /\ month = 3
  /\ args.lumpSumMonth = 3
  /\ args.lumpSum > 0
  /\ balance > 0
  /\ totalPaid > args.lumpSum + 2 * original.monthlyPayment

-----------------------------------------------------------------------------
\* C26: a month takes the closing payment only if its principal reduction,
\* baseline payment - interest + extraMonthly, reaches the remaining balance;
\* no month pays more, lump sum aside, than the baseline payment plus
\* extraMonthly; the closing month pays the remaining balance plus its
\* interest.
C26_ClosingOnlyOnOvershoot ==
  [][(/\ pc = "loop"
      /\ fn = "calculateExtraPaymentImpact"
      /\ month' = month + 1
      /\ BalanceForInterest > 0)
     => /\ balance' = 0 => PrincipalDue >= BalanceForInterest
        /\ PaidInMonth <= original.monthlyPayment + args.extraMonthly
        /\ balance' = 0 => PaidInMonth = BalanceForInterest + InterestDue]_vars

-----------------------------------------------------------------------------
\* C27: whatever loan types were chosen and whatever was submitted, every row
\* of state.amortizationData has the payment state.currentResults.monthlyPayment.
PaymentOf(results) ==
  IF "type" \in DOMAIN results /\ results.type = "Musharakah Mutanaqisah"
  THEN results.monthlyPayment.value
  ELSE results.monthlyPayment

C27_ScheduleOfTheResultsShown ==
  currentResults /= Null =>
    \A i \in 1..Len(amortizationData) :
      amortizationData[i].payment = PaymentOf(currentResults)

-----------------------------------------------------------------------------
\* C28: a submit with the loan amount, the interest rate or the tenure empty
\* or zero shows an error, calls no engine function and leaves
\* state.currentResults and state.amortizationData as they were; an export
\* while state.amortizationData is empty downloads nothing and shows an error.
EmptyOrZero(field) == field.type = "empty" \/ field.value = 0

RejectedFields(f) ==
  EmptyOrZero(f.loanAmount) \/ EmptyOrZero(f.interestRate) \/ EmptyOrZero(f.tenure)

C28_InvalidSubmitChangesNothing ==
  [][/\ (fn' = "calculateMortgage" /\ RejectedFields(args'))
        => /\ toast' = "Please fill in all required fields"
           /\ called' = <<>>
           /\ currentResults' = currentResults
           /\ amortizationData' = amortizationData
     /\ (fn' = "exportToCSV" /\ amortizationData = <<>>)
        => /\ toast' = "No data to export. Please calculate first."
           /\ downloads' = downloads
           /\ currentResults' = currentResults
           /\ amortizationData' = amortizationData]_vars

\* a submit without a loan amount has been rejected, and the results of an
\* earlier submit are still there
C28_RejectedWithResultsKept ==
  /\ fn = "calculateMortgage"
  /\ args.loanAmount = EmptyField
  /\ toast = "Please fill in all required fields"
  /\ called = <<>>
  /\ currentResults /= Null
  /\ Len(amortizationData) > 0

====
